---- MODULE Spec2Model ----
(***************************************************************************)
(* Model of the two posting scripts twitter_post.py and zhihu_post.py.     *)
(*                                                                         *)
(* A Python str is a sequence of naturals (0 is a whitespace character,    *)
(* every other number a visible character).  An Optional[str] is <<>> for  *)
(* None and <<s>> for the string s.  The remote browser is the             *)
(* environment: every awaited Playwright call either completes or raises,  *)
(* and every probe of the DOM (count, get_attribute, inner_text,           *)
(* is_disabled, page.url) answers nondeterministically.  The calls made on *)
(* the browser are logged in the record br.  wait_for_timeout is folded    *)
(* into the step that precedes it: where that step leaves a text in the    *)
(* page, the outcome "late" is the text landing and the wait raising.      *)
(* Entering and leaving the async_playwright() context manager is taken    *)
(* not to raise.                                                           *)
(***************************************************************************)
EXTENDS Integers, Sequences, FiniteSets, TLC

VARIABLES script, args, pc, content, title, loadedFrom, exitCode, warned,
          result, exc, printed, br, loc

vars == <<script, args, pc, content, title, loadedFrom, exitCode, warned,
          result, exc, printed, br, loc>>

(* ---------------------------- bounds ---------------------------------- *)

\* how many characters beyond a limit / a chunk boundary the inputs go
MaxOver == 1
\* the article bodies span up to this many typed chunks
MaxChunks == 3
\* the largest number of <button> elements the article editor page shows
MaxButtons == 2
\* how many clicks on a publish button of the tweet dialog may raise
MaxClickFailures == 1

(* ----------------------- program constants ---------------------------- *)

TWEET_LIMIT == 280
TITLE_LIMIT == 100
chunk_size == 50

(* ------------------------- Python values ------------------------------ *)

None == <<>>
Some(s) == <<s>>

\* Python truthiness of an Optional[str]: None and "" are falsy
Truthy(o) == o # None /\ Len(o[1]) > 0

Min(a, b) == IF a < b THEN a ELSE b

\* s[:n]
Prefix(s, n) == SubSeq(s, 1, Min(n, Len(s)))

\* s[i:i+n] with a 0-based i
Slice(s, i, n) == SubSeq(s, i + 1, Min(i + n, Len(s)))

RECURSIVE LStrip(_)
LStrip(s) == IF s # <<>> /\ Head(s) = 0 THEN LStrip(Tail(s)) ELSE s

RECURSIVE RStrip(_)
RStrip(s) == IF s # <<>> /\ s[Len(s)] = 0
             THEN RStrip(SubSeq(s, 1, Len(s) - 1)) ELSE s

\* str.strip()
Strip(s) == RStrip(LStrip(s))

\* a text of n visible characters whose characters depend on their position
Str(n) == [k \in 1..n |-> 1 + (k % 3)]

(* ----------------------------- inputs --------------------------------- *)

PathStr == <<1, 2, 3>>
UrlStr == <<3, 2, 1>>

\* what a file or the piped standard input may hold
RawTexts == {<<>>, <<0>>, <<0, 1, 2, 0>>}

TweetLens == TWEET_LIMIT .. TWEET_LIMIT + MaxOver
TitleLens == TITLE_LIMIT .. TITLE_LIMIT + MaxOver
BodyLens == {1} \cup {(MaxChunks - 1) * chunk_size + d : d \in {0, MaxOver}}

OptFile == {None, Some(<<>>), Some(PathStr)}
OptReply == {None, Some(UrlStr)}
OptTweet == {None, Some(<<>>), Some(<<0>>)} \cup {Some(Str(n)) : n \in TweetLens}
OptTitle == {None, Some(<<>>)} \cup {Some(Str(n)) : n \in TitleLens}
OptTitleOpt == {None, Some(<<>>), Some(<<3>>)}
OptBody == {None, Some(<<>>)} \cup {Some(Str(n)) : n \in BodyLens}

Outcome == {"ok", "raise"}

\* the outcomes of a step that leaves text in the page and then waits
TextOutcome == {"ok", "raise", "late"}

(* ------------------------- browser call log --------------------------- *)

NoCalls == [connectCalls |-> 0, newPageCalls |-> 0, pages |-> 0,
            gotoCalls |-> 0, tried |-> <<>>, clicks |-> <<>>,
            filled |-> <<>>, typed |-> <<>>, keys |-> <<>>,
            shotCalls |-> 0, shots |-> <<>>, closeCalls |-> 0,
            usedAfterClose |-> FALSE, alertChecks |-> 0, alertSeen |-> FALSE]

NoLocals == [reply_button |-> "", textbox |-> "", title_input |-> "",
             publish_btn |-> -1, i |-> 0, n |-> 0]

\* a call on the page: remembers whether the page had been closed before
Use(b) == [b EXCEPT !.usedAfterClose = @ \/ b.closeCalls > 0]

Locate(b, sel) == [Use(b) EXCEPT !.tried = Append(@, sel)]

\* a click on a publish control
Click(b, sel, disabled, out) ==
    [Use(b) EXCEPT !.clicks = Append(@, [selector |-> sel, disabled |-> disabled, out |-> out])]

Screenshot(b, path, out) ==
    [Use(b) EXCEPT !.shotCalls = @ + 1,
                   !.shots = IF out = "ok" THEN Append(@, path) ELSE @]

Goto(b) == [Use(b) EXCEPT !.gotoCalls = @ + 1]

Press(b, key) == [Use(b) EXCEPT !.keys = Append(@, key)]

\* a completed look for the two confirmation alerts
CheckAlert(b, seen) == [Use(b) EXCEPT !.alertChecks = @ + 1, !.alertSeen = @ \/ seen]

Type(b, text, out) == [Use(b) EXCEPT !.typed = IF out # "raise" THEN Append(@, text) ELSE @]

(* ============================ twitter_post.py ========================= *)

\* main, lines 179-190: content from the file, the argument or stdin
TwMainLoad ==
    /\ pc = "tw_main_load"
    /\ IF Truthy(args.file)
       THEN \/ \E raw \in RawTexts :
                 /\ content' = Strip(raw)
                 /\ loadedFrom' = "file"
                 /\ pc' = "tw_main_check"
                 /\ UNCHANGED exitCode
            \/ /\ pc' = "crashed"          \* open() raises
               /\ exitCode' = 1
               /\ UNCHANGED <<content, loadedFrom>>
       ELSE IF Truthy(args.content)
       THEN /\ content' = args.content[1]
            /\ loadedFrom' = "arg"
            /\ pc' = "tw_main_check"
            /\ UNCHANGED exitCode
       ELSE \/ \E raw \in RawTexts :       \* not sys.stdin.isatty()
                 /\ content' = Strip(raw)
                 /\ loadedFrom' = "stdin"
                 /\ pc' = "tw_main_check"
                 /\ UNCHANGED exitCode
            \/ /\ pc' = "exit"             \* print_help(); sys.exit(1)
               /\ exitCode' = 1
               /\ loadedFrom' = "tty"
               /\ UNCHANGED content
    /\ UNCHANGED <<script, args, title, warned, result, exc, printed, br, loc>>

\* main, lines 192-196: empty content exits, otherwise post_tweet is called
TwMainCheck ==
    /\ pc = "tw_main_check"
    /\ IF content = <<>>
       THEN /\ pc' = "exit"
            /\ exitCode' = 1
       ELSE /\ pc' = "tw_entry"
            /\ UNCHANGED exitCode
    /\ UNCHANGED <<script, args, content, title, loadedFrom, warned, result,
                   exc, printed, br, loc>>

\* TwPreview with the dry-run return dropped
TwPreviewNoDryRun ==
    /\ pc = "tw_entry"
    /\ warned' = (Len(content) > TWEET_LIMIT)
    /\ pc' = "tw_connect"
    /\ UNCHANGED <<script, args, content, title, loadedFrom, exitCode, exc,
                   printed, br, loc, result>>

\* post_tweet, lines 38-46: the length warning and the dry run
TwPreview ==
    /\ pc = "tw_entry"
    /\ warned' = (Len(content) > TWEET_LIMIT)
    /\ IF args.dry_run
       THEN /\ result' = "DRY_RUN"
            /\ pc' = "tw_ret"
       ELSE /\ pc' = "tw_connect"
            /\ UNCHANGED result
    /\ UNCHANGED <<script, args, content, title, loadedFrom, exitCode, exc,
                   printed, br, loc>>

\* post_tweet, lines 48-59: connect_over_cdp and browser.contexts
TwConnect ==
    /\ pc = "tw_connect"
    /\ br' = [br EXCEPT !.connectCalls = @ + 1]
    /\ \E out \in Outcome, hasContext \in BOOLEAN :
          IF out = "raise"
          THEN /\ result' = "Failed to connect to browser"
               /\ pc' = "tw_ret"
          ELSE IF ~hasContext
          THEN /\ result' = "No browser context found"
               /\ pc' = "tw_ret"
          ELSE /\ pc' = "tw_new_page"
               /\ UNCHANGED result
    /\ UNCHANGED <<script, args, content, title, loadedFrom, exitCode, warned,
                   exc, printed, loc>>

\* post_tweet, lines 61-65: context.new_page() is outside the try block
TwNewPage ==
    /\ pc = "tw_new_page"
    /\ \E out \in Outcome :
          IF out = "ok"
          THEN /\ br' = [br EXCEPT !.newPageCalls = @ + 1, !.pages = @ + 1]
               /\ pc' = IF Truthy(args.reply) THEN "tw_reply_goto" ELSE "tw_compose_goto"
               /\ UNCHANGED <<exc, exitCode>>
          ELSE /\ br' = [br EXCEPT !.newPageCalls = @ + 1]
               /\ exc' = TRUE
               /\ pc' = "crashed"
               /\ exitCode' = 1
    /\ UNCHANGED <<script, args, content, title, loadedFrom, warned, result,
                   printed, loc>>

\* post_tweet, lines 67-69
TwReplyGoto ==
    /\ pc = "tw_reply_goto"
    /\ br' = Goto(br)
    /\ \E out \in Outcome :
          pc' = IF out = "ok" THEN "tw_reply_button" ELSE "tw_except"
    /\ UNCHANGED <<script, args, content, title, loadedFrom, exitCode, warned,
                   result, exc, printed, loc>>

\* post_tweet, lines 72-75: the reply button and its alternative selector
TwReplyButton ==
    /\ pc = "tw_reply_button"
    /\ \E out \in Outcome, found \in BOOLEAN :
          IF out = "raise"
          THEN /\ br' = Locate(br, "[data-testid=\"reply\"]")
               /\ pc' = "tw_except"
               /\ UNCHANGED loc
          ELSE IF found
          THEN /\ br' = Locate(br, "[data-testid=\"reply\"]")
               /\ loc' = [loc EXCEPT !.reply_button = "[data-testid=\"reply\"]"]
               /\ pc' = "tw_reply_click"
          ELSE /\ br' = Locate(Locate(br, "[data-testid=\"reply\"]"),
                               "button[aria-label*=\"Reply\"]")
               /\ loc' = [loc EXCEPT !.reply_button = "button[aria-label*=\"Reply\"]"]
               /\ pc' = "tw_reply_click"
    /\ UNCHANGED <<script, args, content, title, loadedFrom, exitCode, warned,
                   result, exc, printed>>

\* post_tweet, lines 77-82: click the reply button or give up
TwReplyClick ==
    /\ pc = "tw_reply_click"
    /\ \E out \in Outcome, found \in BOOLEAN, click \in Outcome :
          IF out = "raise"
          THEN /\ br' = Use(br)
               /\ pc' = "tw_except"
               /\ UNCHANGED result
          ELSE IF found
          THEN /\ br' = Use(br)
               /\ pc' = IF click = "ok" THEN "tw_reply_textbox" ELSE "tw_except"
               /\ UNCHANGED result
          ELSE /\ br' = Use(br)
               /\ result' = "Could not find reply button"
               /\ pc' = "tw_finally"
    /\ UNCHANGED <<script, args, content, title, loadedFrom, exitCode, warned,
                   exc, printed, loc>>

\* post_tweet, lines 85-89: the reply textbox, two alternative selectors
TwReplyTextbox ==
    /\ pc = "tw_reply_textbox"
    /\ \E out \in Outcome, found1 \in BOOLEAN, found2 \in BOOLEAN, at \in {86, 88} :
          LET s1 == "[data-testid=\"tweetTextarea_0\"]"
              s2 == "div[role=\"dialog\"] [data-testid=\"tweetTextarea_0\"]"
              s3 == "[aria-label=\"Post text\"]"
              b1 == Locate(br, s1)
              b2 == IF found1 THEN b1 ELSE Locate(b1, s2)
              t2 == IF found1 THEN s1 ELSE s2
              b3 == IF found2 THEN b2 ELSE Locate(b2, s3)
              t3 == IF found2 THEN t2 ELSE s3
          IN IF out = "raise"        \* the count of line 86 or of line 88
             THEN /\ br' = IF at = 86 THEN b1 ELSE b2
                  /\ pc' = "tw_except"
                  /\ UNCHANGED loc
             ELSE /\ br' = b3
                  /\ loc' = [loc EXCEPT !.textbox = t3]
                  /\ pc' = "tw_textbox_check"
    /\ UNCHANGED <<script, args, content, title, loadedFrom, exitCode, warned,
                   result, exc, printed>>

\* post_tweet, lines 93-95
TwComposeGoto ==
    /\ pc = "tw_compose_goto"
    /\ br' = Goto(br)
    /\ \E out \in Outcome :
          pc' = IF out = "ok" THEN "tw_compose_textbox" ELSE "tw_except"
    /\ UNCHANGED <<script, args, content, title, loadedFrom, exitCode, warned,
                   result, exc, printed, loc>>

\* post_tweet, lines 98-100: the compose textbox and its alternative
TwComposeTextbox ==
    /\ pc = "tw_compose_textbox"
    /\ \E out \in Outcome, found \in BOOLEAN :
          LET s1 == "[data-testid=\"tweetTextarea_0\"]"
              s3 == "[aria-label=\"Post text\"]"
          IN IF out = "raise"
             THEN /\ br' = Locate(br, s1)
                  /\ pc' = "tw_except"
                  /\ UNCHANGED loc
             ELSE IF found
             THEN /\ br' = Locate(br, s1)
                  /\ loc' = [loc EXCEPT !.textbox = s1]
                  /\ pc' = "tw_textbox_check"
             ELSE /\ br' = Locate(Locate(br, s1), s3)
                  /\ loc' = [loc EXCEPT !.textbox = s3]
                  /\ pc' = "tw_textbox_check"
    /\ UNCHANGED <<script, args, content, title, loadedFrom, exitCode, warned,
                   result, exc, printed>>

\* post_tweet, lines 102-104: no textbox, screenshot and give up
TwTextboxCheck ==
    /\ pc = "tw_textbox_check"
    /\ \E out \in Outcome, found \in BOOLEAN, shot \in Outcome :
          IF out = "raise"
          THEN /\ br' = Use(br)
               /\ pc' = "tw_except"
               /\ UNCHANGED result
          ELSE IF found
          THEN /\ br' = Use(br)
               /\ pc' = "tw_type"
               /\ UNCHANGED result
          ELSE /\ br' = Screenshot(br, "/tmp/twitter_debug.png", shot)
               /\ IF shot = "ok"
                  THEN /\ result' = "Could not find tweet textbox"
                       /\ pc' = "tw_finally"
                  ELSE /\ pc' = "tw_except"
                       /\ UNCHANGED result
    /\ UNCHANGED <<script, args, content, title, loadedFrom, exitCode, warned,
                   exc, printed, loc>>

\* the text handed to textbox.fill, line 109
FillText(c) == c

\* post_tweet, lines 106-110: click the textbox and fill it
TwType ==
    /\ pc = "tw_type"
    /\ \E out \in TextOutcome :
          /\ br' = IF out = "raise" THEN Use(br)
                    ELSE [Use(br) EXCEPT !.filled = Some(FillText(content))]
          /\ pc' = IF out = "ok" THEN "tw_ctrl_enter" ELSE "tw_except"
    /\ UNCHANGED <<script, args, content, title, loadedFrom, exitCode, warned,
                   result, exc, printed, loc>>

\* post_tweet, lines 112-118: publish with Control+Enter
TwCtrlEnter ==
    /\ pc = "tw_ctrl_enter"
    /\ br' = Press(br, "Control+Enter")
    /\ \E out \in Outcome :
          pc' = IF out = "ok" THEN "tw_first_check" ELSE "tw_except"
    /\ UNCHANGED <<script, args, content, title, loadedFrom, exitCode, warned,
                   result, exc, printed, loc>>

\* the status of a confirmed post, lines 125-127 and 156-157
Posted(reply_to) == IF Truthy(reply_to) THEN "Reply posted!" ELSE "Tweet posted!"

\* post_tweet, lines 121-130: the first look for a confirmation alert
TwFirstCheck ==
    /\ pc = "tw_first_check"
    /\ \E out \in Outcome, seen \in BOOLEAN :
          LET b1 == Locate(Locate(br, "text=\"Your post was sent.\""),
                           "text=\"Your reply was sent.\"")
          IN IF out = "raise"
             THEN /\ br' = b1
                  /\ pc' = "tw_except"
                  /\ UNCHANGED <<result, loc>>
             ELSE IF seen
             THEN /\ br' = CheckAlert(b1, seen)
                  /\ result' = Posted(args.reply)
                  /\ pc' = "tw_finally"
                  /\ UNCHANGED loc
             ELSE /\ br' = CheckAlert(b1, seen)
                  /\ pc' = "tw_button_loop"
                  /\ loc' = [loc EXCEPT !.i = 1]
                  /\ UNCHANGED result
    /\ UNCHANGED <<script, args, content, title, loadedFrom, exitCode, warned,
                   exc, printed>>

\* lines 131-137
selectors == <<"div[role=\"dialog\"] button[data-testid=\"tweetButton\"]",
               "button[data-testid=\"tweetButton\"]",
               "button[data-testid=\"tweetButtonInline\"]",
               "div[role=\"dialog\"] button:has-text(\"Reply\")",
               "div[role=\"dialog\"] button:has-text(\"Post\")">>

\* what get_attribute("disabled") may answer: no attribute, disabled="",
\* disabled="disabled"
DisabledAttrs == {None, Some(<<>>), Some(<<1, 2>>)}

\* line 143: if is_disabled
IsDisabledTruthy(attr) == Truthy(attr)

ClickFailures(b) == Cardinality({k \in 1..Len(b.clicks) : b.clicks[k].out = "raise"})

\* AfterClick without the break
AfterClickContinue(i) == i + 1

\* where the loop goes after a click that did not raise, line 148: break
AfterClick(i) == Len(selectors) + 1

\* post_tweet, lines 138-151: one iteration of the button fallback loop
TwButtonLoop ==
    /\ pc = "tw_button_loop"
    /\ loc.i <= Len(selectors)
    /\ LET selector == selectors[loc.i]
           b1 == Locate(br, selector)
       IN \E out \in Outcome, found \in BOOLEAN, attrOut \in Outcome,
             attr \in DisabledAttrs,
             click \in {o \in Outcome : o = "raise" => ClickFailures(br) < MaxClickFailures} :
             IF out = "raise"                  \* btn.count() raises
             THEN /\ br' = b1
                  /\ pc' = "tw_except"
                  /\ UNCHANGED loc
             ELSE IF ~found \/ attrOut = "raise" \/ IsDisabledTruthy(attr)
             THEN /\ br' = b1
                  /\ loc' = [loc EXCEPT !.i = @ + 1]
                  /\ UNCHANGED pc
             ELSE /\ br' = Click(b1, selector, attr, click)
                  /\ loc' = [loc EXCEPT !.i = IF click = "ok" THEN AfterClick(@) ELSE @ + 1]
                  /\ UNCHANGED pc
    /\ UNCHANGED <<script, args, content, title, loadedFrom, exitCode, warned,
                   result, exc, printed>>

\* TwFinalCheck reporting success whatever the final look finds
TwFinalCheckAlwaysPosted ==
    /\ pc = "tw_button_loop"
    /\ loc.i > Len(selectors)
    /\ \E out \in Outcome, seen \in BOOLEAN :
          IF out = "raise"
          THEN /\ br' = Use(br)
               /\ pc' = "tw_except"
               /\ UNCHANGED result
          ELSE /\ br' = CheckAlert(br, seen)
               /\ result' = Posted(args.reply)
               /\ pc' = "tw_finally"
    /\ UNCHANGED <<script, args, content, title, loadedFrom, exitCode, warned,
                   exc, printed, loc>>

\* post_tweet, lines 153-157: the final look for a confirmation alert
TwFinalCheck ==
    /\ pc = "tw_button_loop"
    /\ loc.i > Len(selectors)
    /\ \E out \in Outcome, seen \in BOOLEAN :
          IF out = "raise"
          THEN /\ br' = Use(br)
               /\ pc' = "tw_except"
               /\ UNCHANGED result
          ELSE IF seen
          THEN /\ br' = CheckAlert(br, seen)
               /\ result' = Posted(args.reply)
               /\ pc' = "tw_finally"
          ELSE /\ br' = CheckAlert(br, seen)
               /\ pc' = "tw_uncertain"
               /\ UNCHANGED result
    /\ UNCHANGED <<script, args, content, title, loadedFrom, exitCode, warned,
                   exc, printed, loc>>

\* TwUncertain returning without its screenshot
TwUncertainNoShot ==
    /\ pc = "tw_uncertain"
    /\ br' = Use(br)
    /\ result' = "Uncertain if posted"
    /\ pc' = "tw_finally"
    /\ UNCHANGED <<script, args, content, title, loadedFrom, exitCode, warned,
                   exc, printed, loc>>

\* post_tweet, lines 159-160
TwUncertain ==
    /\ pc = "tw_uncertain"
    /\ \E shot \in Outcome :
          /\ br' = Screenshot(br, "/tmp/twitter_debug.png", shot)
          /\ IF shot = "ok"
             THEN /\ result' = "Uncertain if posted"
                  /\ pc' = "tw_finally"
             ELSE /\ pc' = "tw_except"
                  /\ UNCHANGED result
    /\ UNCHANGED <<script, args, content, title, loadedFrom, exitCode, warned,
                   exc, printed, loc>>

\* post_tweet, lines 162-164: the handler; its screenshot is not guarded
TwExcept ==
    /\ pc = "tw_except"
    /\ \E shot \in Outcome :
          /\ br' = Screenshot(br, "/tmp/twitter_error.png", shot)
          /\ IF shot = "ok"
             THEN /\ result' = "Error"
                  /\ UNCHANGED exc
             ELSE /\ exc' = TRUE
                  /\ UNCHANGED result
    /\ pc' = "tw_finally"
    /\ UNCHANGED <<script, args, content, title, loadedFrom, exitCode, warned,
                   printed, loc>>

\* TwFinally closing the page on the normal exits only
TwFinallySkipOnError ==
    /\ pc = "tw_finally"
    /\ \E out \in Outcome :
          IF exc
          THEN /\ pc' = "crashed"
               /\ exitCode' = 1
               /\ UNCHANGED <<exc, br>>
          ELSE /\ br' = [br EXCEPT !.closeCalls = @ + 1]
               /\ IF out = "ok"
                  THEN /\ pc' = "tw_ret"
                       /\ UNCHANGED <<exc, exitCode>>
                  ELSE /\ exc' = TRUE
                       /\ pc' = "crashed"
                       /\ exitCode' = 1
    /\ UNCHANGED <<script, args, content, title, loadedFrom, warned, result,
                   printed, loc>>

\* post_tweet, lines 165-166: finally: await page.close()
TwFinally ==
    /\ pc = "tw_finally"
    /\ br' = [br EXCEPT !.closeCalls = @ + 1]
    /\ \E out \in Outcome :
          IF out = "ok" /\ ~exc
          THEN /\ pc' = "tw_ret"
               /\ UNCHANGED <<exc, exitCode>>
          ELSE /\ exc' = TRUE
               /\ pc' = "crashed"
               /\ exitCode' = 1
    /\ UNCHANGED <<script, args, content, title, loadedFrom, warned, result,
                   printed, loc>>

\* main, line 197: print(result)
TwMainPrint ==
    /\ pc = "tw_ret"
    /\ printed' = result
    /\ pc' = "done"
    /\ exitCode' = 0
    /\ UNCHANGED <<script, args, content, title, loadedFrom, warned, result,
                   exc, br, loc>>

TwitterNext ==
    \/ TwMainLoad \/ TwMainCheck \/ TwPreview \/ TwConnect \/ TwNewPage
    \/ TwReplyGoto \/ TwReplyButton \/ TwReplyClick \/ TwReplyTextbox
    \/ TwComposeGoto \/ TwComposeTextbox \/ TwTextboxCheck \/ TwType
    \/ TwCtrlEnter \/ TwFirstCheck \/ TwButtonLoop \/ TwFinalCheck
    \/ TwUncertain \/ TwExcept \/ TwFinally \/ TwMainPrint

(* ============================= zhihu_post.py ========================== *)

\* Python's `a or b` on two Optional[str]
Or(a, b) == IF Truthy(a) THEN a ELSE b

\* main, lines 211-215: title = args.title_opt or args.title
ZhMainTitle ==
    /\ pc = "zh_main_title"
    /\ LET t == Or(args.title_opt, args.title)
       IN IF Truthy(t)
          THEN /\ title' = t[1]
               /\ pc' = "zh_main_load"
               /\ UNCHANGED exitCode
          ELSE /\ pc' = "exit"
               /\ exitCode' = 1
               /\ UNCHANGED title
    /\ UNCHANGED <<script, args, content, loadedFrom, warned, result, exc,
                   printed, br, loc>>

\* StdinAllowed without the condition of line 223
StdinAllowedAlways(a) == TRUE

\* line 223: stdin is consulted only for a positional title without -t
StdinAllowed(a) == Truthy(a.title) /\ ~Truthy(a.title_opt)

\* main, lines 218-234: content from the file, the argument or stdin
ZhMainLoad ==
    /\ pc = "zh_main_load"
    /\ IF Truthy(args.file)
       THEN \/ \E raw \in RawTexts :
                 /\ content' = Strip(raw)
                 /\ loadedFrom' = "file"
                 /\ pc' = "zh_main_check"
                 /\ UNCHANGED exitCode
            \/ /\ pc' = "crashed"          \* open() raises
               /\ exitCode' = 1
               /\ UNCHANGED <<content, loadedFrom>>
       ELSE IF Truthy(args.content)
       THEN /\ content' = args.content[1]
            /\ loadedFrom' = "arg"
            /\ pc' = "zh_main_check"
            /\ UNCHANGED exitCode
       ELSE IF StdinAllowed(args)
       THEN \/ \E raw \in RawTexts :       \* not sys.stdin.isatty()
                 /\ content' = Strip(raw)
                 /\ loadedFrom' = "stdin"
                 /\ pc' = "zh_main_check"
                 /\ UNCHANGED exitCode
            \/ /\ pc' = "exit"             \* Content is required
               /\ exitCode' = 1
               /\ loadedFrom' = "tty"
               /\ UNCHANGED content
       ELSE /\ pc' = "exit"                \* Content is required
            /\ exitCode' = 1
            /\ UNCHANGED <<content, loadedFrom>>
    /\ UNCHANGED <<script, args, title, warned, result, exc, printed, br, loc>>

\* main, lines 236-240: empty content exits, otherwise post_article is called
ZhMainCheck ==
    /\ pc = "zh_main_check"
    /\ IF content = <<>>
       THEN /\ pc' = "exit"
            /\ exitCode' = 1
       ELSE /\ pc' = "zh_entry"
            /\ UNCHANGED exitCode
    /\ UNCHANGED <<script, args, content, title, loadedFrom, warned, result,
                   exc, printed, br, loc>>

\* Truncate cutting one character too many
TruncateShort(t) == Prefix(t, TITLE_LIMIT - 1)

\* line 41: title = title[:100], reached when len(title) > 100
Truncate(t) == Prefix(t, TITLE_LIMIT)

\* post_article, lines 39-49: the length warning, the cut and the dry run
ZhPreview ==
    /\ pc = "zh_entry"
    /\ warned' = (Len(title) > TITLE_LIMIT)
    /\ title' = IF Len(title) > TITLE_LIMIT THEN Truncate(title) ELSE title
    /\ IF args.dry_run
       THEN /\ result' = "DRY_RUN"
            /\ pc' = "zh_ret"
       ELSE /\ pc' = "zh_connect"
            /\ UNCHANGED result
    /\ UNCHANGED <<script, args, content, loadedFrom, exitCode, exc, printed,
                   br, loc>>

\* post_article, lines 51-62: connect_over_cdp and browser.contexts
ZhConnect ==
    /\ pc = "zh_connect"
    /\ br' = [br EXCEPT !.connectCalls = @ + 1]
    /\ \E out \in Outcome, hasContext \in BOOLEAN :
          IF out = "raise"
          THEN /\ result' = "Failed to connect to browser"
               /\ pc' = "zh_ret"
          ELSE IF ~hasContext
          THEN /\ result' = "No browser context found"
               /\ pc' = "zh_ret"
          ELSE /\ pc' = "zh_new_page"
               /\ UNCHANGED result
    /\ UNCHANGED <<script, args, content, title, loadedFrom, exitCode, warned,
                   exc, printed, loc>>

\* post_article, lines 64-65: context.new_page() is outside the try block
ZhNewPage ==
    /\ pc = "zh_new_page"
    /\ \E out \in Outcome :
          IF out = "ok"
          THEN /\ br' = [br EXCEPT !.newPageCalls = @ + 1, !.pages = @ + 1]
               /\ pc' = "zh_goto"
               /\ UNCHANGED <<exc, exitCode>>
          ELSE /\ br' = [br EXCEPT !.newPageCalls = @ + 1]
               /\ exc' = TRUE
               /\ pc' = "crashed"
               /\ exitCode' = 1
    /\ UNCHANGED <<script, args, content, title, loadedFrom, warned, result,
                   printed, loc>>

\* the shapes page.url takes: the editor, the login page,
\* .../p/ID/edit and .../p/ID
PageUrls == {"write", "signin", "edit", "article"}
HasSignin(u) == u = "signin"
HasP(u) == u \in {"edit", "article"}
HasEdit(u) == u = "edit"

\* post_article, lines 69-78: open the editor, login check, wait for it
ZhGoto ==
    /\ pc = "zh_goto"
    /\ br' = Goto(br)
    /\ \E out \in Outcome, url \in {"write", "signin"}, ready \in Outcome :
          IF out = "raise"
          THEN /\ pc' = "zh_except"
               /\ UNCHANGED <<result, loc>>
          ELSE IF HasSignin(url)
          THEN /\ result' = "Not logged in to Zhihu"
               /\ pc' = "zh_ret"
               /\ UNCHANGED loc
          ELSE IF ready = "raise"
          THEN /\ pc' = "zh_except"
               /\ UNCHANGED <<result, loc>>
          ELSE /\ pc' = "zh_title_loop"
               /\ loc' = [loc EXCEPT !.i = 1]
               /\ UNCHANGED result
    /\ UNCHANGED <<script, args, content, title, loadedFrom, exitCode, warned,
                   exc, printed>>

\* lines 82-88
\* (the two characters of the word for title are written title here)
title_selectors == <<"textarea[placeholder*=\"title\"]",
                     "input[placeholder*=\"title\"]",
                     "textarea[placeholder*=\"100\"]",
                     ".WriteIndex-titleInput textarea",
                     ".PostEditor-titleInput textarea">>

\* post_article, lines 91-95: one iteration of the title selector loop
ZhTitleLoop ==
    /\ pc = "zh_title_loop"
    /\ loc.i <= Len(title_selectors)
    /\ br' = Locate(br, title_selectors[loc.i])
    /\ \E out \in Outcome, found \in BOOLEAN :
          IF out = "raise"
          THEN /\ pc' = "zh_except"
               /\ UNCHANGED loc
          ELSE IF found
          THEN /\ loc' = [loc EXCEPT !.title_input = title_selectors[loc.i]]
               /\ pc' = "zh_title_check"
          ELSE /\ loc' = [loc EXCEPT !.i = @ + 1]
               /\ pc' = IF loc.i = Len(title_selectors) THEN "zh_title_check" ELSE pc
    /\ UNCHANGED <<script, args, content, title, loadedFrom, exitCode, warned,
                   result, exc, printed>>

\* post_article, lines 97-103: the textarea fallback and the last count
ZhTitleCheck ==
    /\ pc = "zh_title_check"
    /\ LET b1 == IF loc.title_input = "" THEN Locate(br, "textarea") ELSE Use(br)
           t1 == IF loc.title_input = "" THEN "textarea" ELSE loc.title_input
       IN \E out \in Outcome, found \in BOOLEAN, shot \in Outcome :
             IF out = "raise"
             THEN /\ br' = b1
                  /\ pc' = "zh_except"
                  /\ UNCHANGED <<result, loc>>
             ELSE IF found
             THEN /\ br' = b1
                  /\ loc' = [loc EXCEPT !.title_input = t1]
                  /\ pc' = "zh_type_title"
                  /\ UNCHANGED result
             ELSE /\ br' = Screenshot(b1, "/tmp/zhihu_debug.png", shot)
                  /\ loc' = [loc EXCEPT !.title_input = t1]
                  /\ IF shot = "ok"
                     THEN /\ result' = "Could not find title input"
                          /\ pc' = "zh_ret"
                     ELSE /\ pc' = "zh_except"
                          /\ UNCHANGED result
    /\ UNCHANGED <<script, args, content, title, loadedFrom, exitCode, warned,
                   exc, printed>>

\* post_article, lines 105-114: click, type the title, Tab to the body
ZhTypeTitle ==
    /\ pc = "zh_type_title"
    /\ \E click \in Outcome, out \in TextOutcome, tab \in Outcome :
          IF click = "raise"
          THEN /\ br' = Use(br)
               /\ pc' = "zh_except"
               /\ UNCHANGED loc
          ELSE IF out # "ok"
          THEN /\ br' = Type(br, title, out)
               /\ pc' = "zh_except"
               /\ UNCHANGED loc
          ELSE /\ br' = Press(Type(br, title, out), "Tab")
               /\ loc' = [loc EXCEPT !.i = 0]
               /\ pc' = IF tab = "ok" THEN "zh_type_chunk" ELSE "zh_except"
    /\ UNCHANGED <<script, args, content, title, loadedFrom, exitCode, warned,
                   result, exc, printed>>

\* Chunk with a slice that ends one character early
ChunkShort(c, i) == SubSeq(c, i + 1, Min(i + chunk_size - 1, Len(c)))

\* line 119: chunk = content[i:i+chunk_size]
Chunk(c, i) == Slice(c, i, chunk_size)

\* post_article, lines 118-121: one iteration of the chunked typing loop
ZhTypeChunk ==
    /\ pc = "zh_type_chunk"
    /\ loc.i < Len(content)
    /\ \E out \in TextOutcome :
          /\ br' = Type(br, Chunk(content, loc.i), out)
          /\ IF out = "ok"
             THEN /\ loc' = [loc EXCEPT !.i = @ + chunk_size]
                  /\ UNCHANGED pc
             ELSE /\ pc' = "zh_except"
                  /\ UNCHANGED loc
    /\ UNCHANGED <<script, args, content, title, loadedFrom, exitCode, warned,
                   result, exc, printed>>

\* post_article, lines 123-133: the loop is over; count the page's buttons
ZhCountButtons ==
    /\ pc = "zh_type_chunk"
    /\ loc.i >= Len(content)
    /\ br' = Locate(br, "button")
    /\ \E out \in Outcome, n \in 0..MaxButtons :
          IF out = "raise"
          THEN /\ pc' = "zh_except"
               /\ UNCHANGED loc
          ELSE /\ loc' = [loc EXCEPT !.n = n, !.i = 0]
               /\ pc' = "zh_find_publish"
    /\ UNCHANGED <<script, args, content, title, loadedFrom, exitCode, warned,
                   result, exc, printed>>

\* the exact text of the publish button, line 136
PublishText == <<1, 2>>

\* what inner_text() may answer: the publish button, the same with
\* surrounding whitespace, the publish-settings button
ButtonTexts == {<<1, 2>>, <<0, 1, 2, 0>>, <<1, 2, 3, 4>>}

\* post_article, lines 133-138: one iteration of the button search
ZhFindPublish ==
    /\ pc = "zh_find_publish"
    /\ loc.i < loc.n
    /\ br' = Use(br)
    /\ \E out \in Outcome, text \in ButtonTexts :
          IF out = "raise"
          THEN /\ pc' = "zh_except"
               /\ UNCHANGED loc
          ELSE IF Strip(text) = PublishText
          THEN /\ loc' = [loc EXCEPT !.publish_btn = loc.i]
               /\ pc' = "zh_check_disabled"
          ELSE /\ loc' = [loc EXCEPT !.i = @ + 1]
               /\ UNCHANGED pc
    /\ UNCHANGED <<script, args, content, title, loadedFrom, exitCode, warned,
                   result, exc, printed>>

\* post_article, lines 140-142: no button carries the publish text
ZhNoPublish ==
    /\ pc = "zh_find_publish"
    /\ loc.i >= loc.n
    /\ \E shot \in Outcome :
          /\ br' = Screenshot(br, "/tmp/zhihu_debug.png", shot)
          /\ IF shot = "ok"
             THEN /\ result' = "Could not find publish button"
                  /\ pc' = "zh_ret"
             ELSE /\ pc' = "zh_except"
                  /\ UNCHANGED result
    /\ UNCHANGED <<script, args, content, title, loadedFrom, exitCode, warned,
                   exc, printed, loc>>

\* the disabled attribute of a button whose is_disabled() answered d
DisabledProp(d) == IF d THEN Some(<<>>) ELSE None

\* post_article, lines 145-158: a disabled button is reported, an enabled
\* one is clicked
ZhPublish ==
    /\ pc = "zh_check_disabled"
    /\ \E out \in Outcome, is_disabled \in BOOLEAN, shot \in Outcome,
          click \in Outcome :
          IF out = "raise"               \* scroll or is_disabled raises
          THEN /\ br' = Use(br)
               /\ pc' = "zh_except"
               /\ UNCHANGED result
          ELSE IF is_disabled
          THEN /\ br' = Screenshot(br, "/tmp/zhihu_debug.png", shot)
               /\ IF shot = "ok"
                  THEN /\ result' = "Publish button is disabled"
                       /\ pc' = "zh_ret"
                  ELSE /\ pc' = "zh_except"
                       /\ UNCHANGED result
          ELSE /\ br' = Click(br, "button", DisabledProp(is_disabled), click)
               /\ pc' = IF click = "ok" THEN "zh_wait_success" ELSE "zh_except"
               /\ UNCHANGED result
    /\ UNCHANGED <<script, args, content, title, loadedFrom, exitCode, warned,
                   exc, printed, loc>>

\* post_article, lines 162-182: wait for the success dialog
ZhWaitSuccess ==
    /\ pc = "zh_wait_success"
    /\ \E out \in Outcome, url \in PageUrls \ {"signin"}, goto \in Outcome :
          IF out = "raise"
          THEN /\ br' = Use(br)
               /\ pc' = "zh_inner_except"
               /\ UNCHANGED result
          ELSE IF HasP(url)
          THEN /\ br' = Goto(br)
               /\ IF goto = "ok"
                  THEN /\ result' = "Published! URL"
                       /\ pc' = "zh_ret"
                  ELSE /\ pc' = "zh_inner_except"
                       /\ UNCHANGED result
          ELSE /\ br' = Use(br)
               /\ result' = "Article published successfully!"
               /\ pc' = "zh_ret"
    /\ UNCHANGED <<script, args, content, title, loadedFrom, exitCode, warned,
                   exc, printed, loc>>

\* post_article, lines 184-192: no success dialog; decide by the URL
ZhInnerExcept ==
    /\ pc = "zh_inner_except"
    /\ \E out \in Outcome, url \in PageUrls \ {"signin"}, shot \in Outcome :
          IF out = "raise"
          THEN /\ br' = Use(br)
               /\ pc' = "zh_except"
               /\ UNCHANGED result
          ELSE IF HasP(url) /\ ~HasEdit(url)
          THEN /\ br' = Use(br)
               /\ result' = "Published! URL"
               /\ pc' = "zh_ret"
          ELSE /\ br' = Screenshot(br, "/tmp/zhihu_result.png", shot)
               /\ IF shot = "ok"
                  THEN /\ result' = "Uncertain if published"
                       /\ pc' = "zh_ret"
                  ELSE /\ pc' = "zh_except"
                       /\ UNCHANGED result
    /\ UNCHANGED <<script, args, content, title, loadedFrom, exitCode, warned,
                   exc, printed, loc>>

\* post_article, lines 194-197: the handler; its screenshot is not guarded
\* and the page is left open
ZhExcept ==
    /\ pc = "zh_except"
    /\ \E shot \in Outcome :
          /\ br' = Screenshot(br, "/tmp/zhihu_error.png", shot)
          /\ IF shot = "ok"
             THEN /\ result' = "Error"
                  /\ pc' = "zh_ret"
                  /\ UNCHANGED <<exc, exitCode>>
             ELSE /\ exc' = TRUE
                  /\ pc' = "crashed"
                  /\ exitCode' = 1
                  /\ UNCHANGED result
    /\ UNCHANGED <<script, args, content, title, loadedFrom, warned, printed,
                   loc>>

\* main, line 241: print(result)
ZhMainPrint ==
    /\ pc = "zh_ret"
    /\ printed' = result
    /\ pc' = "done"
    /\ exitCode' = 0
    /\ UNCHANGED <<script, args, content, title, loadedFrom, warned, result,
                   exc, br, loc>>

ZhihuNext ==
    \/ ZhMainTitle \/ ZhMainLoad \/ ZhMainCheck \/ ZhPreview \/ ZhConnect
    \/ ZhNewPage \/ ZhGoto \/ ZhTitleLoop \/ ZhTitleCheck \/ ZhTypeTitle
    \/ ZhTypeChunk \/ ZhCountButtons \/ ZhFindPublish \/ ZhNoPublish
    \/ ZhPublish \/ ZhWaitSuccess \/ ZhInnerExcept \/ ZhExcept \/ ZhMainPrint

(* ============================ the two programs ======================== *)

\* twitter_post.py, lines 170-176: the parsed command line
TwArgs == [file : OptFile, content : OptTweet, reply : OptReply,
           dry_run : BOOLEAN, title : {None}, title_opt : {None}]

\* zhihu_post.py, lines 201-208: the parsed command line; the second
\* positional is only filled when the first one is
ZhArgs == {a \in [file : OptFile, content : OptBody, reply : {None},
                  dry_run : BOOLEAN, title : OptTitle, title_opt : OptTitleOpt] :
              a.content # None => a.title # None}

Init ==
    /\ script \in {"twitter", "zhihu"}
    /\ args \in IF script = "twitter" THEN TwArgs ELSE ZhArgs
    /\ pc = IF script = "twitter" THEN "tw_main_load" ELSE "zh_main_title"
    /\ content = <<>>
    /\ title = <<>>
    /\ loadedFrom = "none"
    /\ exitCode = -1
    /\ warned = FALSE
    /\ result = ""
    /\ exc = FALSE
    /\ printed = ""
    /\ br = NoCalls
    /\ loc = NoLocals

Next == TwitterNext \/ ZhihuNext

Spec == Init /\ [][Next]_vars

(* ============================== the claims ============================ *)

\* post_tweet / post_article has returned to main
Returned == pc \in {"tw_ret", "zh_ret", "done"}

\* an exception has left post_tweet / post_article
Escaped == pc = "crashed" /\ exc

\* C1: with dry_run set, no call is ever made on the browser (no connection
\* attempt, no page, no navigation, no typing, no key press, no click, no
\* screenshot) and what post_tweet / post_article returns is "DRY_RUN".
C1_DryRunNoBrowserAction ==
    args.dry_run =>
        /\ br = NoCalls
        /\ ~exc
        /\ Returned => result = "DRY_RUN"
        /\ pc = "done" => printed = "DRY_RUN"

\* a dry run of a reply with an over-long tweet has returned and was printed
C1_Witness ==
    /\ script = "twitter" /\ args.dry_run /\ Truthy(args.reply)
    /\ Len(content) > TWEET_LIMIT
    /\ pc = "done" /\ printed = "DRY_RUN"

FailureStatuses ==
    {"Failed to connect to browser", "No browser context found",
     "Could not find reply button", "Could not find tweet textbox",
     "Uncertain if posted", "Error", "Not logged in to Zhihu",
     "Could not find title input", "Could not find publish button",
     "Publish button is disabled", "Uncertain if published"}

\* the failures that are returned with no screenshot
BareFailures ==
    {"Failed to connect to browser", "No browser context found",
     "Could not find reply button", "Not logged in to Zhihu"}

\* C2 as stated: every failure status that is returned comes with a
\* screenshot taken in the same invocation.
C2_EveryFailureHasScreenshot ==
    (Returned /\ result \in FailureStatuses) => Len(br.shots) >= 1

\* C2 amended: a returned failure status comes with a completed screenshot
\* when it reports a missing textbox, title input or publish button, a
\* disabled publish button, an uncertain outcome or a caught exception;
\* a connection failure, a missing browser context, a missing reply button
\* and the login redirect are returned without any screenshot call.
C2_ScreenshotOnLateFailures ==
    Returned =>
        /\ result \in (FailureStatuses \ BareFailures) => Len(br.shots) >= 1
        /\ result \in BareFailures => br.shotCalls = 0
        /\ result \in {"Uncertain if posted", "Could not find tweet textbox"}
              => br.shots[Len(br.shots)] = "/tmp/twitter_debug.png"

\* the uncertain outcome of a tweet has been returned after both checks
C2_Witness ==
    /\ pc = "done" /\ printed = "Uncertain if posted"
    /\ br.alertChecks = 2 /\ br.shots = <<"/tmp/twitter_debug.png">>

\* C3 as stated: no exception ever leaves post_tweet or post_article.
C3_NoExceptionEscapes == ~Escaped

NoDup(q) == \A i, j \in 1..Len(q) : i # j => q[i] # q[j]

CtrlEnters == Cardinality({k \in 1..Len(br.keys) : br.keys[k] = "Control+Enter"})

OkClicks == Cardinality({k \in 1..Len(br.clicks) : br.clicks[k].out = "ok"})

ClickedSelectors == [k \in 1..Len(br.clicks) |-> br.clicks[k].selector]

SuppliedTitle == Or(args.title_opt, args.title)[1]

\* post_tweet / post_article has been entered
PostCalled ==
    /\ pc \notin {"tw_main_load", "tw_main_check", "zh_main_title",
                  "zh_main_load", "zh_main_check", "exit"}
    /\ pc = "crashed" => exc

PastPreview == PostCalled /\ pc \notin {"tw_entry", "zh_entry"}

\* C5 as stated: an over-long tweet or title is warned about and what is
\* injected into the page is exactly what was supplied.
C5_PayloadInjectedUnaltered ==
    /\ (script = "twitter" /\ PastPreview) => warned = (Len(content) > TWEET_LIMIT)
    /\ (script = "zhihu" /\ PastPreview) => warned = (Len(SuppliedTitle) > TITLE_LIMIT)
    /\ (script = "twitter" /\ br.filled # None) => br.filled[1] = content
    /\ (script = "zhihu" /\ br.typed # <<>>) => br.typed[1] = SuppliedTitle

\* C5 amended: an over-long tweet is warned about and filled in unaltered;
\* an over-long title is warned about and cut to its first 100 characters,
\* and the cut title is what is typed into the page.
C5_TitleCutTweetUnaltered ==
    /\ (script = "twitter" /\ PastPreview) => warned = (Len(content) > TWEET_LIMIT)
    /\ (script = "zhihu" /\ PastPreview) => warned = (Len(SuppliedTitle) > TITLE_LIMIT)
    /\ (script = "twitter" /\ br.filled # None) =>
           /\ br.filled[1] = content
           /\ loadedFrom = "arg" => br.filled[1] = args.content[1]
    /\ (script = "zhihu" /\ br.typed # <<>>) =>
           /\ Len(br.typed[1]) = Min(Len(SuppliedTitle), 100)
           /\ \A k \in 1..Len(br.typed[1]) : br.typed[1][k] = SuppliedTitle[k]

\* a title of more than 100 characters was typed as its first 100
C5_Witness ==
    /\ script = "zhihu" /\ warned
    /\ Len(SuppliedTitle) > 100
    /\ br.typed # <<>> /\ Len(br.typed[1]) = 100

\* a tweet of more than 280 characters was filled in whole
C5_TweetWitness ==
    /\ script = "twitter" /\ warned
    /\ br.filled # None /\ Len(br.filled[1]) > 280

\* main is past the loading of the content
Loaded ==
    /\ pc \notin {"tw_main_load", "zh_main_title", "zh_main_load"}
    /\ pc = "crashed" => exc
    /\ script = "zhihu" => Truthy(Or(args.title_opt, args.title))

\* the order of the content sources; stdinOk says whether stdin is a source
SourceOrder(stdinOk) ==
    Loaded =>
        IF Truthy(args.file) THEN loadedFrom = "file"
        ELSE IF Truthy(args.content)
        THEN loadedFrom = "arg" /\ content = args.content[1]
        ELSE IF stdinOk THEN loadedFrom \in {"stdin", "tty"}
        ELSE loadedFrom = "none" /\ pc = "exit"

\* post is reached with non-empty content (and title) only, the browser is
\* only touched inside post, and an exit of main has status 1
NonEmptyOrExit ==
    /\ PostCalled => content # <<>> /\ (script = "zhihu" => title # <<>>)
    /\ br # NoCalls => PostCalled
    /\ (pc = "exit" \/ (pc = "crashed" /\ ~exc)) => exitCode = 1 /\ br = NoCalls
    /\ (Loaded /\ content = <<>>) => pc \in {"tw_main_check", "zh_main_check", "exit"}
    /\ (loadedFrom \in {"file", "stdin"} /\ content # <<>>) =>
           Head(content) # 0 /\ content[Len(content)] # 0

\* C6 as stated: in both scripts the content comes from the file, else from
\* the positional argument, else from standard input; post is reached only
\* with non-empty content; otherwise main exits with status 1, unconnected.
C6_SourceOrderBothScripts == SourceOrder(TRUE) /\ NonEmptyOrExit

\* C6 amended: as stated, except that the article script consults standard
\* input only when the title is the positional argument and -t is absent;
\* with -t (and neither a file nor a content argument) it exits with
\* status 1 without reading standard input.  (A file path or an argument
\* that is the empty string counts as not given.)
C6_SourceOrderStdinRestricted ==
    /\ SourceOrder(script = "twitter" \/ (Truthy(args.title) /\ ~Truthy(args.title_opt)))
    /\ NonEmptyOrExit

\* the article script exited on -t without a file or a content argument
C6_Witness ==
    /\ script = "zhihu" /\ Truthy(args.title_opt)
    /\ ~Truthy(args.file) /\ ~Truthy(args.content)
    /\ pc = "exit" /\ loadedFrom = "none"

\* the article script printed the status of an article read from stdin
C6_StdinWitness ==
    /\ script = "zhihu" /\ loadedFrom = "stdin" /\ pc = "done"
    /\ printed # "DRY_RUN"

\* C7 as stated: no publish button that carries the disabled attribute
\* (whatever its value) is clicked, and at most one click completes.
C7_DisabledNeverClicked ==
    /\ \A k \in 1..Len(br.clicks) : br.clicks[k].disabled = None
    /\ OkClicks <= 1

\* C8: post_tweet holds a success status only after Control+Enter was
\* pressed and a check saw a confirmation alert, and the status names a
\* reply exactly when a reply target was given; when both checks completed
\* without seeing an alert, what is returned is the uncertain status (after
\* a screenshot) or the status of a caught exception, never a success.
C8_SuccessOnlyAfterAlert ==
    script = "twitter" =>
        /\ result \in {"Tweet posted!", "Reply posted!"} =>
               /\ br.alertSeen
               /\ CtrlEnters = 1
               /\ result = IF Truthy(args.reply) THEN "Reply posted!" ELSE "Tweet posted!"
        /\ (Returned /\ br.alertChecks = 2 /\ ~br.alertSeen) =>
               /\ result \in {"Uncertain if posted", "Error"}
               /\ br.shots # <<>>
               /\ result = "Uncertain if posted" => br.shots = <<"/tmp/twitter_debug.png">>

\* a reply was confirmed at the final check, after a button click
C8_Witness ==
    /\ script = "twitter" /\ pc = "done" /\ printed = "Reply posted!"
    /\ br.alertChecks = 2 /\ OkClicks = 1

\* C9: once post_tweet has left (by return or by exception) after opening
\* its page, page.close() was called exactly once; it is never called
\* without a page or twice, and no call is made on the page after it.
C9_PageClosedOnce ==
    script = "twitter" =>
        /\ br.closeCalls <= br.pages
        /\ br.closeCalls <= 1
        /\ ~br.usedAfterClose
        /\ (pc \in {"tw_ret", "done", "crashed"} /\ br.pages = 1) => br.closeCalls = 1
        /\ pc \in {"tw_reply_goto", "tw_reply_button", "tw_reply_click",
                   "tw_reply_textbox", "tw_compose_goto", "tw_compose_textbox",
                   "tw_textbox_check", "tw_type", "tw_ctrl_enter",
                   "tw_first_check", "tw_button_loop", "tw_uncertain",
                   "tw_except", "tw_finally"} => br.closeCalls = 0

\* the handler's own screenshot raised and the page was still closed
C9_Witness ==
    /\ script = "twitter" /\ pc = "crashed" /\ br.pages = 1
    /\ br.shotCalls >= 1 /\ br.shots = <<>> /\ br.closeCalls = 1

RECURSIVE Concat(_)
Concat(q) == IF q = <<>> THEN <<>> ELSE Head(q) \o Concat(Tail(q))

\* the chunks of the body typed so far (the first text typed is the title)
TypedChunks == IF br.typed = <<>> THEN <<>> ELSE Tail(br.typed)

\* C10: the chunks typed are non-empty and at most 50 characters long, all
\* but the last typed are exactly 50 long, together they are a prefix of
\* the content, and once the loop is over they are ceil(len(content)/50)
\* chunks whose concatenation is the content.
C10_ChunksRebuildContent ==
    script = "zhihu" =>
        LET chunks == TypedChunks
            all == Concat(chunks)
        IN /\ \A k \in 1..Len(chunks) : Len(chunks[k]) >= 1 /\ Len(chunks[k]) <= 50
           /\ \A k \in 1..(Len(chunks) - 1) : Len(chunks[k]) = 50
           /\ Len(all) <= Len(content)
           /\ all = SubSeq(content, 1, Len(all))
           /\ pc \in {"zh_find_publish", "zh_check_disabled", "zh_wait_success",
                      "zh_inner_except"} =>
                  /\ all = content
                  /\ Len(chunks) = (Len(content) + 49) \div 50

\* a body of two full chunks and a shorter third was typed to its end
C10_Witness ==
    /\ script = "zhihu" /\ pc = "zh_find_publish"
    /\ Len(TypedChunks) = 3 /\ Len(TypedChunks[3]) < 50
    /\ Concat(TypedChunks) = content

====
